---- MODULE Spec2Model ----
(***************************************************************************)
(* DiscordAuthorization (src/src/auth/authenticator.ts): the OAuth2 client *)
(* object, its two mutable session tokens, the private request executor    *)
(* with its status -> error mapping, and the public operations that call   *)
(* it.  Every async operation is split where it awaits the transport: the  *)
(* synchronous prefix puts a call in flight, and a later step settles it   *)
(* and runs the rest of the operation.                                     *)
(***************************************************************************)
EXTENDS Integers, Sequences, FiniteSets, Bags, TLC

VARIABLES accessToken, refreshToken, inflight, last

vars == <<accessToken, refreshToken, inflight, last>>

(***************************************************************************)
(* Bounds of the model.                                                    *)
(***************************************************************************)
\* calls awaiting the transport at the same time
MaxInflight == 1

(***************************************************************************)
(* JavaScript values, tagged so that values of different types compare.    *)
(***************************************************************************)
Null == <<"null">>
Undefined == <<"undefined">>
Str(s) == <<"string", s>>
Num(n) == <<"number", n>>
Snowflake(s) == <<"snowflake", s>>
Arr(items) == <<"array", items>>
\* an object: its properties in insertion order, as <<key, value>> pairs
Obj(props) == <<"object", props>>

IsObj(v) == v[1] = "object"

\* JS truthiness (ToBoolean)
Truthy(v) ==
  CASE v = Null -> FALSE
    [] v = Undefined -> FALSE
    [] v[1] = "string" -> v[2] # ""
    [] v[1] = "snowflake" -> v[2] # ""
    [] v[1] = "number" -> v[2] # 0
    [] OTHER -> TRUE

\* v.key throws a TypeError when v is null or undefined
CanRead(v) == v # Null /\ v # Undefined

\* v.key for a readable v: the property's value, undefined when absent
Get(v, key) ==
  IF IsObj(v) /\ \E i \in 1..Len(v[2]) : v[2][i][1] = key
  THEN LET i == CHOOSE j \in 1..Len(v[2]) : v[2][j][1] = key IN v[2][i][2]
  ELSE Undefined

\* `${v}` in a template literal, for the values the templates are given
Template(v) ==
  CASE v = Null -> "null"
    [] v = Undefined -> "undefined"
    [] v[1] = "number" -> ToString(v[2])
    [] OTHER -> v[2]

RECURSIVE JSONstringify(_)
RECURSIVE JSONprops(_, _)
\* the members of an object from the i-th on, comma separated
JSONprops(props, i) ==
  IF i > Len(props) THEN ""
  ELSE "\"" \o props[i][1] \o "\":" \o JSONstringify(props[i][2])
       \o (IF i < Len(props) THEN "," ELSE "")
       \o JSONprops(props, i + 1)

\* JSON.stringify(v)
JSONstringify(v) ==
  CASE v = Null -> "null"
    [] v[1] = "string" -> "\"" \o v[2] \o "\""
    [] v[1] = "snowflake" -> "\"" \o v[2] \o "\""
    [] v[1] = "number" -> ToString(v[2])
    [] v[1] = "object" -> "{" \o JSONprops(v[2], 1) \o "}"
    [] OTHER -> "null"

\* { ...a, ...b }: the properties of a, overridden and extended by those of b
Spread(a, b) ==
  [k \in DOMAIN a \cup DOMAIN b |-> IF k \in DOMAIN b THEN b[k] ELSE a[k]]

(***************************************************************************)
(* Strings that reach URLSearchParams are held as texts: the sequence of   *)
(* their maximal runs of URL-safe characters and their single other        *)
(* characters, so that the form encoding acts character by character.      *)
(***************************************************************************)
RECURSIVE Flat(_)
\* the string a text stands for
Flat(text) == IF text = <<>> THEN "" ELSE Head(text) \o Flat(Tail(text))

\* the characters the application/x-www-form-urlencoded serializer escapes
PercentTable ==
  (" " :> "+") @@ (":" :> "%3A") @@ ("/" :> "%2F") @@ ("&" :> "%26")
  @@ ("=" :> "%3D") @@ ("+" :> "%2B") @@ ("%" :> "%25") @@ ("?" :> "%3F")

\* the serializer, were it to escape the space alone
RECURSIVE FormEncodeSpacesOnly(_)
FormEncodeSpacesOnly(text) ==
  IF text = <<>> THEN <<>>
  ELSE <<IF Head(text) = " " THEN "+" ELSE Head(text)>>
       \o FormEncodeSpacesOnly(Tail(text))

RECURSIVE FormEncode(_)
\* the serializer applied to one name or value: the escaped text
FormEncode(text) ==
  IF text = <<>> THEN <<>>
  ELSE <<IF Head(text) \in DOMAIN PercentTable
         THEN PercentTable[Head(text)] ELSE Head(text)>>
       \o FormEncode(Tail(text))

RECURSIVE ParamsSerialize(_)
\* the serialization of <<name, value>> pairs of texts: name=value, joined by &
ParamsSerialize(pairs) ==
  IF pairs = <<>> THEN <<>>
  ELSE FormEncode(Head(pairs)[1]) \o <<"=">> \o FormEncode(Head(pairs)[2])
       \o (IF Len(pairs) > 1 THEN <<"&">> ELSE <<>>)
       \o ParamsSerialize(Tail(pairs))

\* URLSearchParams.prototype.toString
ParamsToString(pairs) == Flat(ParamsSerialize(pairs))

RECURSIVE Join(_, _)
\* Array.prototype.join over texts
Join(texts, sep) ==
  IF texts = <<>> THEN <<>>
  ELSE IF Len(texts) = 1 THEN Head(texts)
  ELSE Head(texts) \o sep \o Join(Tail(texts), sep)

(***************************************************************************)
(* The instance's immutable fields.                                        *)
(***************************************************************************)
clientId == <<"cid">>
clientSecret == <<"s3cret">>
redirectUri == <<"https", ":", "/", "/", "app.example", "/", "cb">>
clientToken == Str("bot-token")
baseURL == "https://discord.com/api/v10"

\* a thrown error: its class, its message and the context argument
Err(kind, message, context) ==
  [kind |-> kind, message |-> message, context |-> context]

NoError == Err("none", "", Undefined)

\* what an async operation settles with
Returned(v) == [outcome |-> "returned", value |-> v, error |-> NoError]
Raised(e) == [outcome |-> "raised", value |-> Undefined, error |-> e]

(***************************************************************************)
(* The transport (axios).  A call settles with a response of status 2xx,   *)
(* or throws: with the failing response attached, or with no response at   *)
(* all when the failure is at the network level.                           *)
(***************************************************************************)
TokenBody ==
  Obj(<< <<"access_token", Str("new-acc")>>,
         <<"refresh_token", Str("new-ref")>> >>)
WrappedBody ==
  Obj(<< <<"data", Obj(<< <<"access_token", Str("new-acc")>>,
                          <<"refresh_token", Str("new-ref")>>,
                          <<"username", Str("wumpus")>> >>)>> >>)
SuccessBodies == {TokenBody, WrappedBody}

MessageBody == Obj(<< <<"message", Str("invalid token")>>, <<"code", Num(0)>> >>)
NoMessageBody == Obj(<< <<"code", Num(0)>> >>)
EmptyMessageBody == Obj(<< <<"message", Str("")>> >>)
FailBodies == {MessageBody, NoMessageBody, EmptyMessageBody, Null}

FailStatuses == {400, 401, 403, 404, 429, 500, 418}

\* how a call settled: fulfilled (ok), rejected with the failing response, or
\* rejected with no response; "none" stands for no call at all
Settled(how, status, data) ==
  [how |-> how, ok |-> how = "fulfilled", hasResponse |-> how \in {"fulfilled", "rejected"},
   status |-> status, data |-> data]

NotSettled == Settled("none", 0, Undefined)
NetworkFailure == Settled("network", 0, Undefined)

Outcomes ==
  {Settled("fulfilled", 200, b) : b \in SuccessBodies}
  \cup {Settled("rejected", s, b) : s \in FailStatuses, b \in FailBodies}
  \cup {NetworkFailure}

\* the error axios itself throws for a failed call
AxiosError(settled) ==
  IF settled.hasResponse
  THEN Err("AxiosError",
           "Request failed with status code " \o ToString(settled.status),
           Undefined)
  ELSE Err("AxiosError", "Network Error", Undefined)

(***************************************************************************)
(* The request executor.                                                   *)
(***************************************************************************)
NoHeaders == [k \in {} |-> ""]

OptionsHeaders(options) ==
  IF "headers" \in DOMAIN options THEN options.headers ELSE NoHeaders

OptionsData(options) ==
  IF "data" \in DOMAIN options THEN options.data ELSE Undefined

\* the header, were the token read once, when the instance is constructed
BearerHeaderAtConstruction == [Authorization |-> "Bearer " \o Template(Null)]

\* the Authorization header request() injects
BearerHeader == [Authorization |-> "Bearer " \o Template(accessToken)]

\* the headers, were the caller's to override the injected one
requestHeadersCallerWins(options) == Spread(BearerHeader, OptionsHeaders(options))

\* request(): the headers of the outbound call
requestHeaders(options) == Spread(OptionsHeaders(options), BearerHeader)

\* request(): the configuration handed to axios.request
requestOptions(method, endpoint, options) ==
  [method |-> method,
   url |-> baseURL \o endpoint,
   headers |-> requestHeaders(options),
   \* ...options already carries data; PUT, POST and PATCH assign it again
   data |-> OptionsData(options)]

errorMessages ==
  (200 :> "Success") @@ (300 :> "Multiple Choices") @@ (400 :> "Bad request")
  @@ (401 :> "Access token must be valid.")
  @@ (429 :> "Request limit reached. Try again later.")
  @@ (500 :> "Discord API Server Error") @@ (404 :> "Not found.")
  @@ (403 :> "You are not authorized to perform this action.")

\* errorMessages[status] || `Status ${status} is not handled yet.`
errorMessage(status) ==
  IF status \in DOMAIN errorMessages THEN errorMessages[status]
  ELSE "Status " \o ToString(status) \o " is not handled yet."

\* the class thrown for a status whose body has a message
errorClass(status) ==
  CASE status = 401 -> "InvalidAccessTokenError"
    [] status = 404 -> "NotFoundError"
    [] status = 400 -> "BadRequestError"
    [] status = 429 -> "RateLimitedError"
    [] status = 500 -> "DiscordAPIError"
    [] status = 403 -> "UnauthorizedError"
    [] OTHER -> "Error"

\* error?.response.data && error?.response.data.message
hasMessage(data) == Truthy(data) /\ Truthy(Get(data, "message"))

\* the catch block, were it to pass the upstream message instead of the body
requestCatchMessageOnly(settled) ==
  IF ~settled.hasResponse
  THEN Err("TypeError",
           "Cannot read properties of undefined (reading 'status')", Undefined)
  ELSE IF hasMessage(settled.data)
  THEN Err(errorClass(settled.status), errorMessage(settled.status),
           Get(settled.data, "message"))
  ELSE Err("Error", errorMessage(settled.status), Undefined)

\* request(): the catch block, for the error axios.request threw
requestCatch(settled) ==
  IF ~settled.hasResponse
  THEN \* error.response is undefined: reading .status of it throws
       Err("TypeError",
           "Cannot read properties of undefined (reading 'status')", Undefined)
  ELSE IF hasMessage(settled.data)
  THEN IF errorClass(settled.status) # "Error"
       THEN Err(errorClass(settled.status), errorMessage(settled.status),
                Str(JSONstringify(settled.data)))
       ELSE Err("Error",
                errorMessage(settled.status) \o " Response Data: "
                  \o JSONstringify(settled.data),
                Undefined)
  ELSE Err("Error", errorMessage(settled.status), Undefined)

\* request(), were its catch block to swallow the failure
requestSettleSwallows(settled) ==
  IF settled.ok THEN Returned(settled.data) ELSE Returned(Undefined)

\* request(): what it settles with once axios.request has settled
requestSettle(settled) ==
  IF settled.ok THEN Returned(settled.data) ELSE Raised(requestCatch(settled))

(***************************************************************************)
(* Inputs of the public operations.                                        *)
(***************************************************************************)
AccessTokenInputs == {"acc1"}
RefreshTokenInputs == {"ref1"}
CodeInputs == {Str("c0de"), Num(42)}
StateInputs == {Undefined, Str("abc"), Str("a b"), Str("x&y=z"), Num(7), Null}
ScopeInputs == {<< <<"identify">> >>, << <<"identify">>, <<"guilds">> >>}
GuildIdInputs == {Snowflake("1111"), Str("guild")}
UserIdInputs == {Snowflake("2222"), Num(7)}
RolesInputs == {Arr(<<>>), Undefined}

\* the text of a string: split at the characters that are not URL-safe
TextOf(s) ==
  CASE s = "a b" -> <<"a", " ", "b">>
    [] s = "x&y=z" -> <<"x", "&", "y", "=", "z">>
    [] OTHER -> <<s>>

\* util/getType: the name of a value's type
getType(v) == v[1]

(***************************************************************************)
(* Bookkeeping: the calls awaiting the transport, and the outcome of the   *)
(* operation that finished last.                                           *)
(***************************************************************************)
\* the record of a finished operation: what ran, the arguments the finishing
\* step was called with (none when it finishes after an await), how it
\* ended, the calls it issued and how its call settled
Done(op, input, result, calls, settled) ==
  [op |-> op, input |-> input, outcome |-> result.outcome, value |-> result.value,
   error |-> result.error, calls |-> calls, settled |-> settled]

\* an outbound call, not yet handed to the transport: the request, how it is
\* made, and what the operation that makes it does once it settles
Call(then, via, req) == [then |-> then, via |-> via, req |-> req, calls |-> 0]

\* handing a call to axios: one outbound HTTP call, awaited
axiosSend(call) ==
  inflight' = inflight (+) SetToBag({[call EXCEPT !.calls = @ + 1]})

\* an operation that throws or returns before it awaits anything
finish(op, input, result) ==
  /\ last' = Done(op, input, result, 0, NotSettled)
  /\ UNCHANGED inflight

Init ==
  /\ accessToken = Null
  /\ refreshToken = Null
  /\ inflight = EmptyBag
  /\ last = Done("constructor", <<>>, Returned(Undefined), 0, NotSettled)

(***************************************************************************)
(* The public operations, up to the point where they await the transport.  *)
(***************************************************************************)
\* this.request(method, endpoint, options), by an operation that goes on with
\* `then` once it settles
request(then, method, endpoint, options) ==
  /\ axiosSend(Call(then, "request", requestOptions(method, endpoint, options)))
  /\ UNCHANGED <<accessToken, refreshToken, last>>

\* generateOauth2Link(): the parameters of the link
linkParams(scopes, st) ==
  << << <<"client_id">>, clientId >>,
     << <<"redirect_uri">>, redirectUri >>,
     << <<"response_type">>, <<"code">> >>,
     << <<"state">>, TextOf(Template(st)) >>,
     << <<"scope">>, Join(scopes, <<" ">>) >> >>

\* generateOauth2Link(): `https://discord.com/oauth2/authorize?${params}`
linkURL(scopes, st) ==
  Str("https://discord.com/oauth2/authorize?" \o ParamsToString(linkParams(scopes, st)))

\* the link, were the type of state not checked
generateOauth2LinkUnchecked(scopes, state) ==
  Returned(linkURL(scopes, IF state = Undefined THEN Str("1bac472") ELSE state))

generateOauth2LinkResult(scopes, state) ==
  LET st == IF state = Undefined THEN Str("1bac472") ELSE state IN
  IF getType(st) # "string"
  THEN Raised(Err("TypeError",
                  "Expected type of state to be a 'string' but got "
                    \o getType(st) \o " instead.", Undefined))
  ELSE Returned(linkURL(scopes, st))

generateOauth2Link(scopes, state) ==
  /\ finish("generateOauth2Link", <<scopes, state>>,
            generateOauth2LinkResult(scopes, state))
  /\ UNCHANGED <<accessToken, refreshToken>>

exchangeParams(code) ==
  ParamsToString(<< << <<"client_id">>, clientId >>,
                    << <<"client_secret">>, clientSecret >>,
                    << <<"grant_type">>, <<"authorization_code">> >>,
                    << <<"code">>, TextOf(code[2]) >>,
                    << <<"redirect_uri">>, redirectUri >> >>)

exchangeCodeForTokens(code) ==
  IF getType(code) # "string"
  THEN /\ finish("exchangeCodeForTokens", <<code>>,
                 Raised(Err("TypeError",
                            "Expected type of code to exchange to be 'string' but got "
                              \o getType(code), Undefined)))
       /\ UNCHANGED <<accessToken, refreshToken>>
  ELSE request("exchangeCodeForTokens", "POST", "/oauth2/token",
               [headers |-> ("Content-Type" :> "application/x-www-form-urlencoded"),
                data |-> Str(exchangeParams(code))])

setAccessToken(token) ==
  /\ accessToken' = Str(token)
  /\ finish("setAccessToken", <<Str(token)>>, Returned(Undefined))
  /\ UNCHANGED refreshToken

setRevokeToken(token) ==
  /\ refreshToken' = Str(token)
  /\ finish("setRevokeToken", <<Str(token)>>, Returned(Undefined))
  /\ UNCHANGED accessToken

\* the guard, were it to test the access token alone
revokeRefusedAccessOnly == ~Truthy(accessToken)

\* revokeToken(): the guard on the two tokens
revokeRefused == ~Truthy(accessToken) \/ ~Truthy(refreshToken)

revokeParams ==
  ParamsToString(<< << <<"client_id">>, clientId >>,
                    << <<"client_secret">>, clientSecret >>,
                    << <<"token">>, TextOf(Template(refreshToken)) >> >>)

revokeToken ==
  IF revokeRefused
  THEN /\ finish("revokeToken", <<>>,
                 Raised(Err("Error",
                            "Access token and refresh token are required to revoke the token.",
                            Undefined)))
       /\ UNCHANGED <<accessToken, refreshToken>>
  ELSE /\ axiosSend(Call("revokeToken", "axios.post",
                         [method |-> "POST",
                          url |-> "https://discord.com/api/oauth2/token/revoke",
                          headers |-> ("Content-Type" :> "application/x-www-form-urlencoded"),
                          data |-> Str(revokeParams)]))
       /\ UNCHANGED <<accessToken, refreshToken, last>>

NoOptions == [k \in {} |-> Undefined]

getUserInfo == request("returnData", "GET", "/users/@me", NoOptions)

getMyInfo == request("returnData", "GET", "/users/@me", NoOptions)

getUserConnections ==
  request("returnData", "GET", "/users/@me/connections", NoOptions)

getMyConnections ==
  request("returnData", "GET", "/users/@me/connections", NoOptions)

getGuilds == request("returnData", "GET", "/users/@me/guilds", NoOptions)

getApplication ==
  request("returnData", "GET", "/oauth2/applications/@me",
          [headers |-> [Authorization |-> "Bot " \o Template(clientToken)]])

\* joinGuild(): the first type check that fails, "" when all pass
joinGuildRejects(options) ==
  IF getType(options.guildId) # "snowflake"
  THEN "Expected guild id to be a 'snowflake' but got "
         \o getType(options.guildId) \o " instead."
  ELSE IF getType(options.roles) # "array"
  THEN "Expected roles to be an 'array' but got "
         \o getType(options.roles) \o " instead."
  ELSE IF getType(options.userId) # "snowflake"
  THEN "Expected user id to be a 'snowflake' but got "
         \o getType(options.userId) \o " instead."
  ELSE ""

joinGuild(options) ==
  IF joinGuildRejects(options) # ""
  THEN /\ finish("joinGuild", <<options.guildId, options.userId, options.roles>>,
                 Raised(Err("TypeError", joinGuildRejects(options), Undefined)))
       /\ UNCHANGED <<accessToken, refreshToken>>
  ELSE /\ axiosSend(Call("joinGuild", "axios.put",
                         [method |-> "PUT",
                          url |-> baseURL \o "/guilds/" \o options.guildId[2]
                                    \o "/members/" \o options.userId[2],
                          headers |-> [Authorization |-> "Bot " \o Template(clientToken)]
                                        @@ ("Content-Type" :> "application/json"),
                          data |-> Obj(<< <<"roles", options.roles>>,
                                          <<"access_token", accessToken>> >>)]))
       /\ UNCHANGED <<accessToken, refreshToken, last>>

guildMemberRejects(guildId) ==
  "guildId is not a valid snowflake.\nExpected: 'snowflake'\tReceived: "
    \o getType(guildId)

getGuildMember(guildId) ==
  IF getType(guildId) # "snowflake"
  THEN /\ finish("getGuildMember", <<guildId>>,
                 Raised(Err("TypeError", guildMemberRejects(guildId), Undefined)))
       /\ UNCHANGED <<accessToken, refreshToken>>
  ELSE request("returnData", "GET",
               "/users/@me/guilds/" \o guildId[2] \o "/member", NoOptions)

getMyInfoFromGuild(guildId) ==
  IF getType(guildId) # "snowflake"
  THEN /\ finish("getMyInfoFromGuild", <<guildId>>,
                 Raised(Err("TypeError", guildMemberRejects(guildId), Undefined)))
       /\ UNCHANGED <<accessToken, refreshToken>>
  ELSE request("returnData", "GET",
               "/users/@me/guilds/" \o guildId[2] \o "/member", NoOptions)

\* username() calls getMyInfo(), which calls request()
username == request("username", "GET", "/users/@me", NoOptions)

(***************************************************************************)
(* The operations from the point where the transport settles their call.   *)
(***************************************************************************)
\* return response?.data, for the result of request()
returnData(r) ==
  IF r.outcome = "raised" THEN r
  ELSE IF ~CanRead(r.value) THEN Returned(Undefined)
  ELSE Returned(Get(r.value, "data"))

\* exchangeCodeForTokens(): after await this.request(...)
exchangeAfter(r) ==
  IF r.outcome = "raised" THEN r
  ELSE IF ~CanRead(r.value)
  THEN Returned(Obj(<< <<"accessToken", Undefined>>, <<"refreshToken", Undefined>> >>))
  ELSE IF ~CanRead(Get(r.value, "data"))
  THEN Raised(Err("TypeError",
                  "Cannot read properties of undefined (reading 'access_token')",
                  Undefined))
  ELSE Returned(Obj(<< <<"accessToken", Get(Get(r.value, "data"), "access_token")>>,
                       <<"refreshToken", Get(Get(r.value, "data"), "refresh_token")>> >>))

\* username(): after await this.getMyInfo()
usernameAfter(r) ==
  IF returnData(r).outcome = "raised" THEN returnData(r)
  ELSE IF ~CanRead(returnData(r).value)
  THEN Raised(Err("TypeError",
                  "Cannot read properties of undefined (reading 'username')",
                  Undefined))
  ELSE Returned(Get(returnData(r).value, "username"))

\* the rest of the calling operation once request() has settled with r
afterRequest(then, r) ==
  CASE then = "exchangeCodeForTokens" -> exchangeAfter(r)
    [] then = "username" -> usernameAfter(r)
    [] OTHER -> returnData(r)

\* axios.request settles a call made through request()
requestSettles(call, settled) ==
  /\ call.via = "request"
  /\ inflight' = inflight (-) SetToBag({call})
  /\ last' = Done(call.then, <<>>,
                  afterRequest(call.then, requestSettle(settled)),
                  call.calls, settled)
  /\ UNCHANGED <<accessToken, refreshToken>>

\* the tokens, were they left as they are after a successful call
revokeNeverClears(settled, token) == token

\* the tokens, were they cleared whether or not the call succeeded
revokeClearsAlways(settled, token) == Null

\* the tokens, were they cleared whenever the server answered at all
revokeClearsUnlessNetwork(settled, token) ==
  IF settled.hasResponse THEN Null ELSE token

\* revokeToken(): the tokens after await axios.post(...)
revokeClears(settled, token) == IF settled.ok THEN Null ELSE token

\* axios.post settles the call of revokeToken()
revokeSettles(call, settled) ==
  /\ call.via = "axios.post"
  /\ inflight' = inflight (-) SetToBag({call})
  /\ accessToken' = revokeClears(settled, accessToken)
  /\ refreshToken' = revokeClears(settled, refreshToken)
  /\ last' = Done(call.then, <<>>,
                  IF settled.ok THEN Returned(Undefined)
                  ELSE Raised(AxiosError(settled)),
                  call.calls, settled)

\* joinGuild(), were its failure mapped like that of request()
joinAfterClassified(settled) ==
  IF settled.ok THEN Returned(settled.data) ELSE Raised(requestCatch(settled))

\* joinGuild(): after await axios.put(...), which nothing catches
joinAfter(settled) ==
  IF settled.ok THEN Returned(settled.data) ELSE Raised(AxiosError(settled))

\* axios.put settles the call of joinGuild()
joinSettles(call, settled) ==
  /\ call.via = "axios.put"
  /\ inflight' = inflight (-) SetToBag({call})
  /\ last' = Done(call.then, <<>>, joinAfter(settled), call.calls, settled)
  /\ UNCHANGED <<accessToken, refreshToken>>

\* the calls awaiting the transport stay within the limit: Free before an
\* operation that always issues a call, Room after one that may refuse first
Free(limit) == BagCardinality(inflight) < limit

Room(limit) == BagCardinality(inflight') <= limit

\* one step of the instance: a caller invokes an operation, or the transport
\* settles a call with one of the outcomes
Steps(limit, outcomes) ==
  \/ \E scopes \in ScopeInputs, state \in StateInputs :
       generateOauth2Link(scopes, state)
  \/ \E code \in CodeInputs : exchangeCodeForTokens(code) /\ Room(limit)
  \/ \E token \in AccessTokenInputs : setAccessToken(token)
  \/ \E token \in RefreshTokenInputs : setRevokeToken(token)
  \/ revokeToken /\ Room(limit)
  \/ Free(limit) /\ getUserInfo
  \/ Free(limit) /\ getMyInfo
  \/ Free(limit) /\ getUserConnections
  \/ Free(limit) /\ getMyConnections
  \/ Free(limit) /\ getGuilds
  \/ Free(limit) /\ getApplication
  \/ \E g \in GuildIdInputs, r \in RolesInputs, u \in UserIdInputs :
       joinGuild([guildId |-> g, roles |-> r, userId |-> u]) /\ Room(limit)
  \/ \E g \in GuildIdInputs : getGuildMember(g) /\ Room(limit)
  \/ \E g \in GuildIdInputs : getMyInfoFromGuild(g) /\ Room(limit)
  \/ Free(limit) /\ username
  \/ \E call \in BagToSet(inflight), settled \in outcomes :
       requestSettles(call, settled)
  \/ \E call \in BagToSet(inflight), settled \in outcomes :
       revokeSettles(call, settled)
  \/ \E call \in BagToSet(inflight), settled \in outcomes :
       joinSettles(call, settled)

Next == Steps(MaxInflight, Outcomes)

Spec == Init /\ [][Next]_vars

\* the same steps with up to MaxConcurrent calls awaiting the transport at
\* once, each settling with a success or with a failing response
MaxConcurrent == 2

ConcurrentOutcomes ==
  {Settled("fulfilled", 200, WrappedBody), Settled("rejected", 401, MessageBody)}

NextConcurrent == Steps(MaxConcurrent, ConcurrentOutcomes)

SpecConcurrent == Init /\ [][NextConcurrent]_vars

(***************************************************************************)
(* Properties.                                                             *)
(***************************************************************************)
\* the error kinds of the specification, for the classes the code throws
SpecKind(class) ==
  CASE class = "InvalidAccessTokenError" -> "InvalidAccessToken"
    [] class = "UnauthorizedError" -> "Forbidden"
    [] class = "NotFoundError" -> "NotFound"
    [] class = "BadRequestError" -> "BadRequest"
    [] class = "RateLimitedError" -> "RateLimited"
    [] class = "DiscordAPIError" -> "UpstreamServerError"
    [] class = "Error" -> "Unclassified"
    [] class = "TypeError" -> "ValidationError"
    [] OTHER -> class

\* the specification's status table
StatusKind(status) ==
  CASE status = 401 -> "InvalidAccessToken"
    [] status = 403 -> "Forbidden"
    [] status = 404 -> "NotFound"
    [] status = 400 -> "BadRequest"
    [] status = 429 -> "RateLimited"
    [] status = 500 -> "UpstreamServerError"
    [] OTHER -> "Unclassified"

\* the operations that go through request()
ViaRequest == {"exchangeCodeForTokens", "returnData", "username"}

\* the last finished operation went through request() and its call failed
\* with a response
RequestRejected == last.op \in ViaRequest /\ last.settled.how = "rejected"

\* the failing body has a message property at all
BodyIncludesMessage ==
  CanRead(last.settled.data) /\ Get(last.settled.data, "message") # Undefined

PreconditionMessage ==
  "Access token and refresh token are required to revoke the token."

\* C1: a revokeToken() called while accessToken or refreshToken is null
\* raises the precondition Error and puts no call on the wire (nor changes
\* any token).
C1_RevokeNeedsBothTokens ==
  [][(revokeToken /\ (accessToken = Null \/ refreshToken = Null))
       => /\ inflight' = inflight
          /\ last'.op = "revokeToken"
          /\ last'.outcome = "raised"
          /\ SpecKind(last'.error.kind) = "Unclassified"
          /\ last'.error.message = PreconditionMessage
          /\ last'.calls = 0
          /\ accessToken' = accessToken
          /\ refreshToken' = refreshToken]_vars

\* C1 witness: revokeToken() was refused with only accessToken set.
C1_Witness ==
  /\ last.op = "revokeToken"
  /\ last.outcome = "raised"
  /\ last.error.message = PreconditionMessage
  /\ last.calls = 0
  /\ accessToken = Str("acc1")
  /\ refreshToken = Null
  /\ inflight = EmptyBag

\* C2: once revokeToken() has returned normally (both tokens were set and
\* the revoke call succeeded), accessToken and refreshToken are both null.
C2_RevokeClearsBoth ==
  (last.op = "revokeToken" /\ last.outcome = "returned")
    => (accessToken = Null /\ refreshToken = Null)

\* C2 witness: a revoke call has succeeded and the tokens are gone.
C2_Witness ==
  /\ last.op = "revokeToken"
  /\ last.outcome = "returned"
  /\ last.settled.ok
  /\ last.calls = 1
  /\ accessToken = Null
  /\ refreshToken = Null

\* C3: for every failing response the error raised by request() has the
\* kind the status table gives for the status, whatever the body.
C3_KindByStatusOnly ==
  RequestRejected => SpecKind(last.error.kind) = StatusKind(last.settled.status)

\* C4 (as claimed): whenever the failing body includes a message property,
\* the error carries the JSON-serialized body as its context.
C4_BodyAsContextWheneverMessage ==
  (RequestRejected /\ BodyIncludesMessage)
    => last.error.context = Str(JSONstringify(last.settled.data))

\* C4 (amended): when the failing body has a non-empty message, the error's
\* message is the status table's; for a status of the table (400, 401, 403,
\* 404, 429, 500) the error has the kind of the status and the serialized
\* body as context; for any other status it is a plain Error with no
\* context, the serialized body appended to its message.  A body whose
\* message is empty is treated as a body with no message.
C4_BodyCarriedWhenMessageNonEmpty ==
  (RequestRejected /\ BodyIncludesMessage)
    => LET status == last.settled.status
           body == JSONstringify(last.settled.data) IN
       IF ~Truthy(Get(last.settled.data, "message"))
       THEN last.error = Err("Error", errorMessage(status), Undefined)
       ELSE IF StatusKind(status) # "Unclassified"
       THEN /\ SpecKind(last.error.kind) = StatusKind(status)
            /\ last.error.message = errorMessages[status]
            /\ last.error.context = Str(body)
       ELSE /\ last.error.kind = "Error"
            /\ last.error.message =
                 "Status " \o ToString(status) \o " is not handled yet."
                   \o " Response Data: " \o body
            /\ last.error.context = Undefined

\* C4 witness: a 401 with body {"message":"invalid token","code":0} raised
\* an InvalidAccessTokenError whose context is that body, serialized.
C4_Witness ==
  /\ RequestRejected
  /\ last.settled.status = 401
  /\ last.settled.data = MessageBody
  /\ last.outcome = "raised"
  /\ last.error.kind = "InvalidAccessTokenError"
  /\ last.error.message = "Access token must be valid."
  /\ last.error.context = Str("{\"message\":\"invalid token\",\"code\":0}")

\* C5: when the failing body has no message property, the error still has
\* the kind mapped from the status, and carries the mapped message only.
C5_KindKeptWithoutMessage ==
  (RequestRejected /\ ~BodyIncludesMessage)
    => /\ SpecKind(last.error.kind) = StatusKind(last.settled.status)
       /\ last.error.message = errorMessage(last.settled.status)
       /\ last.error.context = Undefined

\* C6: a failure with no response at all reaches the caller as an
\* Unclassified error, the kind raised for an unmapped status.
C6_NetworkFailureUnclassified ==
  (last.op \in ViaRequest /\ last.settled.how = "network")
    => /\ last.outcome = "raised"
       /\ SpecKind(last.error.kind) = "Unclassified"

\* C7: every invocation of request() issues exactly one outbound call, while
\* it awaits and when it has finished, and a failed call is raised to the
\* caller, never retried or swallowed.
C7_OneCallPerRequest ==
  /\ \A call \in BagToSet(inflight) : call.via = "request" => call.calls = 1
  /\ (last.op \in ViaRequest /\ last.settled.how # "none")
       => /\ last.calls = 1
          /\ (~last.settled.ok => last.outcome = "raised")

\* C7 witness: a call through request() failed once and was raised.
C7_Witness ==
  /\ last.op = "returnData"
  /\ last.settled.how = "rejected"
  /\ last.settled.status = 429
  /\ last.calls = 1
  /\ last.outcome = "raised"

\* the calls a step puts in flight
Issued(call) == CopiesIn(call, inflight') > CopiesIn(call, inflight)

\* C8: every call issued through request() carries Authorization: Bearer
\* <the accessToken of that moment>, also when the caller supplied its own
\* Authorization (getApplication), and the caller's other headers (the
\* Content-Type of exchangeCodeForTokens) unchanged, with nothing added.
C8_BearerAlwaysInjected ==
  [][\A call \in BagToSet(inflight') :
       (Issued(call) /\ call.via = "request")
         => /\ call.req.headers["Authorization"] = "Bearer " \o Template(accessToken)
            /\ IF call.then = "exchangeCodeForTokens"
               THEN /\ DOMAIN call.req.headers = {"Authorization", "Content-Type"}
                    /\ call.req.headers["Content-Type"]
                         = "application/x-www-form-urlencoded"
               ELSE DOMAIN call.req.headers = {"Authorization"}]_vars

\* C8 witness: getApplication's call is in flight with the bearer token in
\* place of the Bot token its caller supplied.
C8_Witness ==
  \E call \in BagToSet(inflight) :
    /\ call.via = "request"
    /\ call.req.url = baseURL \o "/oauth2/applications/@me"
    /\ call.req.headers["Authorization"] = "Bearer acc1"
    /\ accessToken = Str("acc1")

\* C9: when the token endpoint answers successfully with a body holding
\* access_token and refresh_token, exchangeCodeForTokens returns exactly
\* {accessToken: body.access_token, refreshToken: body.refresh_token}.
C9_ExchangeMapsTokenFields ==
  (/\ last.op = "exchangeCodeForTokens"
   /\ last.settled.ok
   /\ Get(last.settled.data, "access_token") # Undefined
   /\ Get(last.settled.data, "refresh_token") # Undefined)
    => /\ last.outcome = "returned"
       /\ last.value =
            Obj(<< <<"accessToken", Get(last.settled.data, "access_token")>>,
                   <<"refreshToken", Get(last.settled.data, "refresh_token")>> >>)

\* C10: a step changes accessToken or refreshToken only if it is
\* setAccessToken, setRevokeToken or a revokeToken that returns normally.
C10_TokensChangeOnlyBySetOrRevoke ==
  [][(accessToken' # accessToken \/ refreshToken' # refreshToken)
       => \/ last'.op \in {"setAccessToken", "setRevokeToken"}
          \/ (last'.op = "revokeToken" /\ last'.outcome = "returned")]_vars

\* C10 witness: exchangeCodeForTokens has returned tokens and the instance
\* still holds none.
C10_Witness ==
  /\ last.op = "exchangeCodeForTokens"
  /\ last.outcome = "returned"
  /\ Get(last.value, "accessToken") = Str("new-acc")
  /\ accessToken = Null
  /\ refreshToken = Null

\* C11: joinGuild's call is made with axios.put directly, once, with
\* Authorization: Bot <clientToken> and never the bearer token as that
\* header; when it fails, the caller gets the transport's own error, not
\* one of the kinds request() raises.
C11_JoinBypassesRequest ==
  /\ \A call \in BagToSet(inflight) :
       call.then = "joinGuild"
         => /\ call.via = "axios.put"
            /\ call.calls = 1
            /\ call.req.headers["Authorization"] = "Bot " \o Template(clientToken)
            /\ call.req.headers["Authorization"] # "Bearer " \o Template(accessToken)
  /\ (last.op = "joinGuild" /\ last.settled.how \in {"rejected", "network"})
       => /\ last.outcome = "raised"
          /\ last.calls = 1
          /\ last.error = AxiosError(last.settled)
          /\ last.error.kind = "AxiosError"

\* C11 witness: a join answered 403 with a message raised the transport's
\* error, where request() would have raised an UnauthorizedError.
C11_Witness ==
  /\ last.op = "joinGuild"
  /\ last.settled.status = 403
  /\ last.settled.data = MessageBody
  /\ last.outcome = "raised"
  /\ last.error.kind = "AxiosError"
  /\ last.error.message = "Request failed with status code 403"
  /\ requestCatch(last.settled).kind = "UnauthorizedError"

\* the last finished operation was given an argument of the wrong type
MalformedInput ==
  \/ /\ last.op = "exchangeCodeForTokens"
     /\ last.input # <<>>
     /\ getType(last.input[1]) # "string"
  \/ /\ last.op = "generateOauth2Link"
     /\ last.input[2] # Undefined
     /\ getType(last.input[2]) # "string"

\* C12: a generateOauth2Link given a state that is not a string, and an
\* exchangeCodeForTokens given a code that is not a string, end with a
\* ValidationError, with no call issued, and the step that ends them leaves
\* the tokens and the calls in flight as they were.
C12_MalformedInputRejected ==
  [][(last' # last /\ MalformedInput')
       => /\ last'.outcome = "raised"
          /\ SpecKind(last'.error.kind) = "ValidationError"
          /\ last'.calls = 0
          /\ last'.settled = NotSettled
          /\ inflight' = inflight
          /\ accessToken' = accessToken
          /\ refreshToken' = refreshToken]_vars

\* C12 witness: generateOauth2Link was given a number as state and raised,
\* while a call of another operation stayed in flight untouched.
C12_Witness ==
  /\ last.op = "generateOauth2Link"
  /\ last.input[2] = Num(7)
  /\ last.outcome = "raised"
  /\ last.error.kind = "TypeError"
  /\ last.error.message
       = "Expected type of state to be a 'string' but got number instead."
  /\ last.calls = 0
  /\ inflight # EmptyBag

(***************************************************************************)
(* Reading a query string back, as a URL parser does: split at &, then at  *)
(* the first =, then unescape each name and value.                         *)
(***************************************************************************)
\* what each escape stands for
UnescapeTable ==
  ("+" :> " ") @@ ("%3A" :> ":") @@ ("%2F" :> "/") @@ ("%26" :> "&")
  @@ ("%3D" :> "=") @@ ("%2B" :> "+") @@ ("%25" :> "%") @@ ("%3F" :> "?")

RECURSIVE Unescape(_)
\* the string an escaped text stands for
Unescape(text) ==
  IF text = <<>> THEN ""
  ELSE (IF Head(text) \in DOMAIN UnescapeTable
        THEN UnescapeTable[Head(text)] ELSE Head(text))
       \o Unescape(Tail(text))

\* the place of the first sep in text, 0 when there is none
FirstAt(text, sep) ==
  IF \E i \in 1..Len(text) : text[i] = sep
  THEN CHOOSE i \in 1..Len(text) :
         text[i] = sep /\ \A j \in 1..(i - 1) : text[j] # sep
  ELSE 0

RECURSIVE SplitAt(_, _)
\* the pieces of text between its seps
SplitAt(text, sep) ==
  IF FirstAt(text, sep) = 0 THEN <<text>>
  ELSE <<SubSeq(text, 1, FirstAt(text, sep) - 1)>>
       \o SplitAt(SubSeq(text, FirstAt(text, sep) + 1, Len(text)), sep)

\* one name=value piece, unescaped
DecodePair(piece) ==
  IF FirstAt(piece, "=") = 0 THEN <<Unescape(piece), "">>
  ELSE <<Unescape(SubSeq(piece, 1, FirstAt(piece, "=") - 1)),
         Unescape(SubSeq(piece, FirstAt(piece, "=") + 1, Len(piece)))>>

\* the <<name, value>> pairs a query string decodes to
QueryDecode(query) ==
  [i \in 1..Len(SplitAt(query, "&")) |-> DecodePair(SplitAt(query, "&")[i])]

RECURSIVE SpaceSeparated(_)
\* the scopes, in order, with one space between neighbours
SpaceSeparated(scopes) ==
  IF scopes = <<>> THEN ""
  ELSE IF Len(scopes) = 1 THEN Flat(Head(scopes))
  ELSE Flat(Head(scopes)) \o " " \o SpaceSeparated(Tail(scopes))

\* the parameters the link is to carry
ExpectedLinkParams(scopes, state) ==
  << <<"client_id", "cid">>,
     <<"redirect_uri", "https://app.example/cb">>,
     <<"response_type", "code">>,
     <<"state", IF state = Undefined THEN "1bac472" ELSE state[2]>>,
     <<"scope", SpaceSeparated(scopes)>> >>

\* C13: a generateOauth2Link given a state that is a string (or none) ends
\* with no call issued and returns the authorize URL whose query string
\* decodes to exactly client_id, redirect_uri, response_type = code, state
\* (1bac472 when omitted) and scope = the given scopes in order, separated
\* by single spaces.
C13_LinkDecodesToParams ==
  (/\ last.op = "generateOauth2Link"
   /\ (last.input[2] = Undefined \/ getType(last.input[2]) = "string"))
    => LET scopes == last.input[1]
           state == last.input[2]
           st == IF state = Undefined THEN Str("1bac472") ELSE state
           query == ParamsSerialize(linkParams(scopes, st)) IN
       /\ last.outcome = "returned"
       /\ last.calls = 0
       /\ last.settled = NotSettled
       /\ last.value = Str("https://discord.com/oauth2/authorize?" \o Flat(query))
       /\ QueryDecode(query) = ExpectedLinkParams(scopes, state)

\* C13 witness: scopes identify, guilds and state abc gave the link below.
C13_Witness ==
  /\ last.op = "generateOauth2Link"
  /\ last.input = << << <<"identify">>, <<"guilds">> >>, Str("abc") >>
  /\ last.outcome = "returned"
  /\ last.calls = 0
  /\ last.value =
       Str("https://discord.com/oauth2/authorize?client_id=cid"
           \o "&redirect_uri=https%3A%2F%2Fapp.example%2Fcb"
           \o "&response_type=code&state=abc&scope=identify+guilds")

\* the step settles the call of a revokeToken() with a failure
RevokeFails ==
  /\ BagCardinality(inflight') < BagCardinality(inflight)
  /\ last'.op = "revokeToken"
  /\ last'.settled.how \in {"rejected", "network"}

\* C14: when the call of a revokeToken() fails, the error axios raised
\* reaches the caller, both tokens keep the values they had, and if both
\* were set they still are, so revokeToken() can be called again at once.
C14_FailedRevokeKeepsTokens ==
  [][RevokeFails
       => /\ last'.outcome = "raised"
          /\ last'.error = AxiosError(last'.settled)
          /\ last'.calls = 1
          /\ accessToken' = accessToken
          /\ refreshToken' = refreshToken
          /\ (~revokeRefused => ~revokeRefused')]_vars

\* C14 witness: a revokeToken() has failed with a response and both tokens
\* are still the ones that were set
C14_Witness ==
  /\ last.op = "revokeToken"
  /\ last.outcome = "raised"
  /\ last.settled.how = "rejected"
  /\ last.error.kind = "AxiosError"
  /\ accessToken = Str("acc1")
  /\ refreshToken = Str("ref1")

\* the step settles the call of a revokeToken() with a success
RevokeSucceeds ==
  /\ BagCardinality(inflight') < BagCardinality(inflight)
  /\ last'.op = "revokeToken"
  /\ last'.settled.ok

\* C15: with several calls awaiting the transport, a step either issues one
\* call, settles one call, or touches no call, and never rewrites a call in
\* flight; a step that issues a call leaves the tokens alone; the call of a
\* revokeToken() is issued only with both tokens set and carries the
\* refreshToken of that moment; a call issued through request() carries the
\* bearer token of that moment; and a revokeToken() whose call succeeds
\* leaves both tokens null whatever was stored in them meanwhile.
C15_InterleaveOnlyAtAwait ==
  [][/\ \/ inflight' = inflight
        \/ /\ BagCardinality(inflight') = BagCardinality(inflight) + 1
           /\ inflight \sqsubseteq inflight'
        \/ /\ BagCardinality(inflight) = BagCardinality(inflight') + 1
           /\ inflight' \sqsubseteq inflight
     /\ \A call \in BagToSet(inflight') :
          Issued(call)
            => /\ accessToken' = accessToken
               /\ refreshToken' = refreshToken
               /\ call.via = "axios.post"
                    => ~revokeRefused /\ call.req.data = Str(revokeParams)
               /\ call.via = "request"
                    => call.req.headers["Authorization"]
                         = "Bearer " \o Template(accessToken)
     /\ RevokeSucceeds => accessToken' = Null /\ refreshToken' = Null]_vars

\* C15 witness: a revokeToken() has just succeeded and cleared the tokens
\* while a call issued through request() before that is still in flight,
\* carrying the bearer token it was issued with.
C15_Witness ==
  /\ last.op = "revokeToken"
  /\ last.outcome = "returned"
  /\ accessToken = Null
  /\ refreshToken = Null
  /\ \E call \in BagToSet(inflight) :
       /\ call.via = "request"
       /\ call.req.headers["Authorization"] = "Bearer acc1"

====
